---- MODULE Spec2Model ----
(***************************************************************************)
(* A model of bhlaspaceapiclient/client.py: the recursive tree helpers     *)
(* (extract_archival_object_uris_from_children,                            *)
(* find_children_with_instances), the upward chain walks (build_hierarchy, *)
(* get_most_proximate_date) and the bulk maintenance operations            *)
(* (merge_top_containers, the two restriction sweeps,                      *)
(* remove_resource_associations) of ASpaceClient, run by one sequential    *)
(* caller against a backend that stores whole records.                     *)
(***************************************************************************)
EXTENDS Integers, Sequences, FiniteSets, TLC

VARIABLES
    archival_objects,   \* backend: archival object uri -> stored record, or NotFound
    top_containers,     \* backend: top container uri -> stored record, or NotFound
    digital_objects,    \* backend: digital object uri -> stored record, or NotFound
    extractDefault,     \* the list bound to archival_object_uris=[] at definition time (line 711)
    findDefault,        \* the list bound to children_with_instances=[] at definition time (line 720)
    extractCall,        \* the last call of extract_archival_object_uris_from_children
    findCall,           \* the last call of find_children_with_instances
    op,                 \* the ASpaceClient method running, with its arguments
    pc,                 \* its position
    locals,             \* its local variables
    ret,                \* how the last finished method ended
    requests,           \* the HTTP requests the running (or last) method has issued
    nOps                \* methods and helper calls started so far

vars == <<archival_objects, top_containers, digital_objects, extractDefault,
          findDefault, extractCall, findCall, op, pc, locals, ret, requests, nOps>>

backendVars == <<archival_objects, top_containers, digital_objects>>
walkerVars == <<extractDefault, findDefault, extractCall, findCall>>
clientVars == <<op, pc, locals, ret, requests>>

-----------------------------------------------------------------------------
(* Bounds of the model                                                     *)

MaxCalls == 3       \* helper calls in one behaviour of SpecWalker

-----------------------------------------------------------------------------
(* Uris: self.repository + "/<type>/<id>"                                  *)

Uri(type, id) == [type |-> type, id |-> id]
AO(id) == Uri("archival_objects", id)
TC(id) == Uri("top_containers", id)
DO(id) == Uri("digital_objects", id)

SeqToSet(s) == {s[i] : i \in 1..Len(s)}
Count(x, s) == Cardinality({i \in 1..Len(s) : s[i] = x})

\* Python truthiness of an optional string argument whose default is False
\* (modelled as the string "False") and which may also be given as "".
Truthy(s) == s \notin {"False", ""}

-----------------------------------------------------------------------------
(* Tree projections and the two recursive helpers                          *)

TreeNode(uri, has_children, instance_types, children) ==
    [record_uri |-> uri, has_children |-> has_children,
     instance_types |-> instance_types, children |-> children]

RECURSIVE extract_archival_object_uris_from_children(_, _)
extract_archival_object_uris_from_children(children, archival_object_uris) ==
    IF children = <<>> THEN archival_object_uris
    ELSE LET child == Head(children)
             appended == Append(archival_object_uris, child.record_uri)
             below == IF child.has_children
                      THEN extract_archival_object_uris_from_children(child.children, appended)
                      ELSE appended
         IN extract_archival_object_uris_from_children(Tail(children), below)

ChildQualifies(child, instance_type) ==
    /\ child.instance_types # {}
    /\ \/ Truthy(instance_type) /\ instance_type \in child.instance_types
       \/ ~Truthy(instance_type)

RECURSIVE find_children_with_instances(_, _, _)
find_children_with_instances(children, children_with_instances, instance_type) ==
    IF children = <<>> THEN children_with_instances
    ELSE LET child == Head(children)
             appended == IF ChildQualifies(child, instance_type)
                         THEN Append(children_with_instances, child.record_uri)
                         ELSE children_with_instances
             below == IF child.has_children
                      THEN find_children_with_instances(child.children, appended, instance_type)
                      ELSE appended
         IN find_children_with_instances(Tail(children), below, instance_type)

\* What a caller observes of a helper call.
NoCall == [made |-> FALSE]
CallRecord(children, filter, explicit, before, result) ==
    [made |-> TRUE, children |-> children, filter |-> filter,
     explicit |-> explicit, before |-> before, result |-> result]

\* extract_archival_object_uris_from_children(children): the accumulator is the
\* default list, which the call extends in place and returns.
CallExtractDefault(children) ==
    /\ nOps < MaxCalls
    /\ extractDefault' = extract_archival_object_uris_from_children(children, extractDefault)
    /\ extractCall' = CallRecord(children, "False", FALSE, extractDefault, extractDefault')
    /\ nOps' = nOps + 1
    /\ UNCHANGED <<findDefault, findCall, backendVars, clientVars>>

\* extract_archival_object_uris_from_children(children, archival_object_uris=[])
CallExtractExplicit(children) ==
    /\ nOps < MaxCalls
    /\ extractCall' = CallRecord(children, "False", TRUE, <<>>,
                         extract_archival_object_uris_from_children(children, <<>>))
    /\ nOps' = nOps + 1
    /\ UNCHANGED <<extractDefault, findDefault, findCall, backendVars, clientVars>>

\* find_children_with_instances(children, instance_type=filter)
CallFindDefault(children, filter) ==
    /\ nOps < MaxCalls
    /\ findDefault' = find_children_with_instances(children, findDefault, filter)
    /\ findCall' = CallRecord(children, filter, FALSE, findDefault, findDefault')
    /\ nOps' = nOps + 1
    /\ UNCHANGED <<extractDefault, extractCall, backendVars, clientVars>>

\* find_children_with_instances(children, children_with_instances=[], instance_type=filter)
CallFindExplicit(children, filter) ==
    /\ nOps < MaxCalls
    /\ findCall' = CallRecord(children, filter, TRUE, <<>>,
                      find_children_with_instances(children, <<>>, filter))
    /\ nOps' = nOps + 1
    /\ UNCHANGED <<extractDefault, findDefault, extractCall, backendVars, clientVars>>

\* The trees the helpers are called on: a parent ao1 over a child ao2, with and
\* without has_children, optionally followed by a sibling ao3; a lone ao3; none.
TypeSets == {{}, {"digital_object"}, {"mixed_materials"}}
Filters == {"False", "digital_object", "mixed_materials"}
Leaf(uri, types) == TreeNode(uri, FALSE, types, <<>>)
ParentNode(hc, t1, t2) == TreeNode(AO(1), hc, t1, <<Leaf(AO(2), t2)>>)
TreeSet ==
    {<<>>}
    \cup {<<ParentNode(hc, t1, t2)>> :
            hc \in BOOLEAN, t1 \in {{}, {"digital_object"}}, t2 \in TypeSets}
    \cup {<<ParentNode(TRUE, t1, {"digital_object"}), Leaf(AO(3), {"mixed_materials"})>> :
            t1 \in {{}, {"digital_object"}}}
    \cup {<<Leaf(AO(3), t)>> : t \in TypeSets}

Idle == [name |-> "idle"]
NoRet == [status |-> "none"]

InitWalker ==
    /\ archival_objects = <<>>
    /\ top_containers = <<>>
    /\ digital_objects = <<>>
    /\ extractDefault = <<>>
    /\ findDefault = <<>>
    /\ extractCall = NoCall
    /\ findCall = NoCall
    /\ op = Idle
    /\ pc = "idle"
    /\ locals = <<>>
    /\ ret = NoRet
    /\ requests = <<>>
    /\ nOps = 0

NextWalker ==
    \/ \E children \in TreeSet : CallExtractDefault(children)
    \/ \E children \in TreeSet : CallExtractExplicit(children)
    \/ \E children \in TreeSet, filter \in Filters : CallFindDefault(children, filter)
    \/ \E children \in TreeSet, filter \in Filters : CallFindExplicit(children, filter)

SpecWalker == InitWalker /\ [][NextWalker]_vars

-----------------------------------------------------------------------------
(* Strings are sequences of one-character strings                          *)

RECURSIVE Join(_, _)
Join(parts, sep) ==
    IF parts = <<>> THEN <<>>
    ELSE IF Len(parts) = 1 THEN parts[1]
    ELSE parts[1] \o sep \o Join(Tail(parts), sep)

RECURSIVE LStrip(_)
LStrip(s) == IF s # <<>> /\ Head(s) = " " THEN LStrip(Tail(s)) ELSE s

RECURSIVE RStrip(_)
RStrip(s) == IF s # <<>> /\ s[Len(s)] = " " THEN RStrip(SubSeq(s, 1, Len(s) - 1)) ELSE s

\* str.strip()
Strip(s) == RStrip(LStrip(s))

\* re.sub(r"<.*?>", "", title): each "<" up to the nearest following ">" goes.
RECURSIVE RemoveTags(_)
RemoveTags(s) ==
    IF s = <<>> THEN <<>>
    ELSE IF Head(s) = "<" /\ \E j \in 2..Len(s) : s[j] = ">"
         THEN LET close == CHOOSE j \in 2..Len(s) :
                               s[j] = ">" /\ \A k \in 2..(j - 1) : s[k] # ">"
              IN RemoveTags(SubSeq(s, close + 1, Len(s)))
         ELSE <<Head(s)>> \o RemoveTags(Tail(s))

sanitize_title(title) == Strip(RemoveTags(title))

\* One entry of aspace_json["dates"]; an absent key is the empty string.
DateEntry(date_type, expression, begin, end) ==
    [date_type |-> date_type, expression |-> expression, begin |-> begin, end |-> end]

\* The expression format_dates uses for one entry (lines 521-528).
DateExpression(date) ==
    IF date.expression # <<>> THEN date.expression
    ELSE IF date.begin # <<>> /\ date.end # <<>> THEN date.begin \o <<"-">> \o date.end
    ELSE IF date.begin # <<>> THEN date.begin
    ELSE <<>>

DatesOfType(dates, date_type) ==
    LET chosen == SelectSeq(dates, LAMBDA d : d.date_type = date_type)
    IN [i \in 1..Len(chosen) |-> Strip(DateExpression(chosen[i]))]

format_dates(aspace_json) ==
    IF aspace_json.dates # <<>>
    THEN LET inclusive_dates == DatesOfType(aspace_json.dates, "inclusive")
             bulk_dates == DatesOfType(aspace_json.dates, "bulk")
             dates == Join(inclusive_dates, <<",", " ">>)
         IN IF bulk_dates # <<>>
            THEN dates \o <<" ", "(", "b", "u", "l", "k", " ">> \o bulk_dates[1] \o <<")">>
            ELSE dates
    ELSE <<>>

\* Python's None, which is no string.
PyNone == <<"None">>

\* make_display_string(aspace_json), add_parent_title left at False.
make_display_string(aspace_json) ==
    IF aspace_json.title # <<>> /\ aspace_json.dates # <<>>
    THEN sanitize_title(aspace_json.title) \o <<",", " ">> \o format_dates(aspace_json)
    ELSE IF aspace_json.title # <<>> /\ aspace_json.dates = <<>>
    THEN sanitize_title(aspace_json.title)
    ELSE IF aspace_json.dates # <<>> /\ aspace_json.title = <<>>
    THEN format_dates(aspace_json)
    ELSE PyNone

Reverse(s) == [i \in 1..Len(s) |-> s[Len(s) + 1 - i]]

-----------------------------------------------------------------------------
(* The backend and the request layer                                       *)

NoParent == Uri("none", 0)

ArchivalObject(uri, title, dates, parent, notes, instances) ==
    [uri |-> uri, title |-> title, dates |-> dates, parent |-> parent,
     notes |-> notes, instances |-> instances,
     display_string |-> <<"D", "S">> \o title]

Exists(uri) ==
    CASE uri.type = "archival_objects" -> uri \in DOMAIN archival_objects
      [] uri.type = "top_containers" -> uri \in DOMAIN top_containers
      [] uri.type = "digital_objects" -> uri \in DOMAIN digital_objects
      [] OTHER -> FALSE

Stored(uri) ==
    CASE uri.type = "archival_objects" -> archival_objects[uri]
      [] uri.type = "top_containers" -> top_containers[uri]
      [] uri.type = "digital_objects" -> digital_objects[uri]

Response(status, is_json, body) == [status |-> status, is_json |-> is_json, body |-> body]
NoBody == <<>>

\* What the server may answer to a GET of a record: the record, 404 when it
\* is not stored, or a failure of the server or of a proxy before it.
GetResponses(uri) ==
    {IF Exists(uri) THEN Response(200, TRUE, Stored(uri)) ELSE Response(404, TRUE, NoBody)}
    \cup {Response(500, TRUE, NoBody), Response(200, FALSE, NoBody)}

\* _request (lines 129-140) with expected_response=200: what it raises.
RequestError_oneKind(response) ==
    IF response.status # 200 \/ ~response.is_json THEN "ArchivesSpaceError" ELSE "none"
RequestError(response) ==
    IF response.status # 200 THEN "CommunicationError"
    ELSE IF ~response.is_json THEN "ArchivesSpaceError"
    ELSE "none"

Request(method, uri, response) == [method |-> method, uri |-> uri, status |-> response.status]

Returned(value) == [status |-> "returned", value |-> value]
Raised(error) == [status |-> "raised", error |-> error]

-----------------------------------------------------------------------------
(* build_hierarchy and get_most_proximate_date                             *)

MaxFetches == 4     \* parent fetches of one chain walk the model follows

\* build_hierarchy(aspace_json) is entered with a record the caller fetched.
StartBuildHierarchy(uri) ==
    /\ pc = "idle"
    /\ uri \in DOMAIN archival_objects
    /\ op' = [name |-> "build_hierarchy", uri |-> uri, delimiter |-> ">"]
    /\ locals' = [aspace_json |-> archival_objects[uri], parent_titles |-> <<>>]
    /\ pc' = "chain"
    /\ requests' = <<>>
    /\ ret' = NoRet
    /\ UNCHANGED <<nOps, backendVars, walkerVars>>

\* One turn of "while aspace_json.get("parent")": fetch the parent, keep its
\* display string, go on from the parent.
BuildHierarchyStep ==
    /\ pc = "chain"
    /\ op.name = "build_hierarchy"
    /\ locals.aspace_json.parent # NoParent
    /\ Len(requests) < MaxFetches
    /\ LET parent_ref == locals.aspace_json.parent
       IN \E response \in GetResponses(parent_ref) :
            /\ requests' = Append(requests, Request("GET", parent_ref, response))
            /\ IF RequestError(response) # "none"
               THEN /\ ret' = Raised(RequestError(response))
                    /\ pc' = "idle"
                    /\ UNCHANGED locals
               ELSE /\ locals' = [aspace_json |-> response.body,
                                  parent_titles |-> Append(locals.parent_titles,
                                                           make_display_string(response.body))]
                    /\ UNCHANGED <<ret, pc>>
    /\ UNCHANGED <<op, nOps, backendVars, walkerVars>>

\* The loop has ended: reverse and join; str.join raises TypeError on a None.
BuildHierarchyReturn ==
    /\ pc = "chain"
    /\ op.name = "build_hierarchy"
    /\ locals.aspace_json.parent = NoParent
    /\ LET parent_titles == Reverse(locals.parent_titles)
       IN ret' = IF parent_titles = <<>> THEN Returned(<<>>)
                 ELSE IF \E i \in 1..Len(parent_titles) : parent_titles[i] = PyNone
                 THEN Raised("TypeError")
                 ELSE Returned(Join(parent_titles, <<" ", op.delimiter, " ">>))
    /\ pc' = "idle"
    /\ UNCHANGED <<op, locals, requests, nOps, backendVars, walkerVars>>

StartMostProximateDate(uri) ==
    /\ pc = "idle"
    /\ uri \in DOMAIN archival_objects
    /\ op' = [name |-> "get_most_proximate_date", uri |-> uri]
    /\ locals' = [aspace_json |-> archival_objects[uri]]
    /\ pc' = "chain"
    /\ requests' = <<>>
    /\ ret' = NoRet
    /\ UNCHANGED <<nOps, backendVars, walkerVars>>

\* One turn of "while not dates and parent".
MostProximateDateStep ==
    /\ pc = "chain"
    /\ op.name = "get_most_proximate_date"
    /\ locals.aspace_json.dates = <<>>
    /\ locals.aspace_json.parent # NoParent
    /\ Len(requests) < MaxFetches
    /\ LET parent_ref == locals.aspace_json.parent
       IN \E response \in GetResponses(parent_ref) :
            /\ requests' = Append(requests, Request("GET", parent_ref, response))
            /\ IF RequestError(response) # "none"
               THEN /\ ret' = Raised(RequestError(response))
                    /\ pc' = "idle"
                    /\ UNCHANGED locals
               ELSE /\ locals' = [aspace_json |-> response.body]
                    /\ UNCHANGED <<ret, pc>>
    /\ UNCHANGED <<op, nOps, backendVars, walkerVars>>

MostProximateDateReturn ==
    /\ pc = "chain"
    /\ op.name = "get_most_proximate_date"
    /\ ~(locals.aspace_json.dates = <<>> /\ locals.aspace_json.parent # NoParent)
    /\ ret' = Returned(format_dates(locals.aspace_json))
    /\ pc' = "idle"
    /\ UNCHANGED <<op, locals, requests, nOps, backendVars, walkerVars>>

\* Three archival objects whose parent references are whatever the backend
\* holds: none, another object, the object itself, or an object not stored.
ChainUris == {AO(1), AO(2), AO(3)}
ChainTitle(uri) == <<"T", CASE uri.id = 1 -> "1" [] uri.id = 2 -> "2" [] OTHER -> "3">>
ChainDates == {<<>>, <<DateEntry("inclusive", <<>>, <<"1", "9">>, <<"2", "0">>)>>}

InitChain ==
    /\ \E parent \in [ChainUris -> ChainUris \cup {NoParent, AO(4)}],
          hasTitle \in [ChainUris -> BOOLEAN],
          dates \in [ChainUris -> ChainDates] :
            archival_objects =
                [uri \in ChainUris |->
                    ArchivalObject(uri,
                                   IF hasTitle[uri] THEN ChainTitle(uri) ELSE <<>>,
                                   dates[uri], parent[uri], <<>>, <<>>)]
    /\ top_containers = <<>>
    /\ digital_objects = <<>>
    /\ extractDefault = <<>>
    /\ findDefault = <<>>
    /\ extractCall = NoCall
    /\ findCall = NoCall
    /\ op = Idle
    /\ pc = "idle"
    /\ locals = <<>>
    /\ ret = NoRet
    /\ requests = <<>>
    /\ nOps = 0

NextChain ==
    \/ \E uri \in ChainUris : StartBuildHierarchy(uri)
    \/ BuildHierarchyStep
    \/ BuildHierarchyReturn
    \/ \E uri \in ChainUris : StartMostProximateDate(uri)
    \/ MostProximateDateStep
    \/ MostProximateDateReturn

SpecChain == InitChain /\ [][NextChain]_vars

\* C4: a chain walk detects a cycle of parent references and stops: it never
\* fetches a uri it has already fetched in the same walk (so it ends after at
\* most one fetch per ancestor).
C4_ChainWalkStopsOnCycle ==
    op.name \in {"build_hierarchy", "get_most_proximate_date"} =>
        \A i, j \in 1..Len(requests) : i < j => requests[i].uri # requests[j].uri

\* On a chain without a cycle the walks do end after one fetch per ancestor.
RECURSIVE Ancestors(_, _)
Ancestors(uri, fuel) ==
    IF fuel = 0 \/ uri \notin DOMAIN archival_objects \/ archival_objects[uri].parent = NoParent
    THEN <<>>
    ELSE <<archival_objects[uri].parent>> \o Ancestors(archival_objects[uri].parent, fuel - 1)

AcyclicFrom(uri) ==
    LET chain == <<uri>> \o Ancestors(uri, Cardinality(ChainUris) + 1)
    IN \A i, j \in 1..Len(chain) : i < j => chain[i] # chain[j]

AcyclicWalkEnds ==
    (op.name = "build_hierarchy" /\ AcyclicFrom(op.uri)) =>
        /\ Len(requests) <= Len(Ancestors(op.uri, Cardinality(ChainUris) + 1))
        /\ \A i \in 1..Len(requests) :
              requests[i].uri = Ancestors(op.uri, Cardinality(ChainUris) + 1)[i]

-----------------------------------------------------------------------------
(* The stored records the bulk operations read and write                   *)

MaxOps == 2         \* bulk operations one behaviour runs, one after the other

Instance(instance_type, ref) == [instance_type |-> instance_type, ref |-> ref]
DigitalObjectInstance(id) == Instance("digital_object", DO(id))
ContainerInstance(id) == Instance("mixed_materials", TC(id))

\* instance["sub_container"]: only a container instance has the key.
HasSubContainer(instance) == instance.instance_type # "digital_object"

TopContainer(uri, collection) == [uri |-> uri, collection |-> collection]
DigitalObject(uri, linked_instances) == [uri |-> uri, linked_instances |-> linked_instances]

\* The resources of the repository and the archival objects below each.
Resources == {1, 2}
TreeUri(resource_number) == Uri("resources_tree", resource_number)
MetadataUri(top_container_id) == Uri("metadata_for_container", top_container_id)

InstanceTypesOf(uri) ==
    IF uri \in DOMAIN archival_objects
    THEN {archival_objects[uri].instances[i].instance_type :
             i \in 1..Len(archival_objects[uri].instances)}
    ELSE {}

\* The body of GET /resources/:id/tree: resource 1 holds ao1 over ao2,
\* resource 2 holds ao3.
ResourceTree(resource_number) ==
    IF resource_number = 1
    THEN [children |-> <<TreeNode(AO(1), TRUE, InstanceTypesOf(AO(1)),
                                  <<TreeNode(AO(2), FALSE, InstanceTypesOf(AO(2)), <<>>)>>)>>]
    ELSE [children |-> <<TreeNode(AO(3), FALSE, InstanceTypesOf(AO(3)), <<>>)>>]

References(uri, target) ==
    \E i \in 1..Len(archival_objects[uri].instances) :
        archival_objects[uri].instances[i].ref = target

\* The body of GET /metadata_for_container/:id: the archival objects that
\* hold an instance of the container.
MetadataForContainer(top_container_id) ==
    LET referencing == SelectSeq(<<AO(1), AO(2), AO(3)>>,
                          LAMBDA uri : uri \in DOMAIN archival_objects
                                       /\ References(uri, TC(top_container_id)))
    IN [archival_objects |->
           [i \in 1..Len(referencing) |-> [archival_object_uri |-> referencing[i]]]]

Served(uri) ==
    CASE uri.type = "resources_tree" -> uri.id \in Resources
      [] uri.type = "metadata_for_container" -> TC(uri.id) \in DOMAIN top_containers
      [] OTHER -> Exists(uri)

Body(uri) ==
    CASE uri.type = "resources_tree" -> ResourceTree(uri.id)
      [] uri.type = "metadata_for_container" -> MetadataForContainer(uri.id)
      [] OTHER -> Stored(uri)

\* The answers to session.get(url) for any endpoint the operations read.
GetAnswers(uri) ==
    {IF Served(uri) THEN Response(200, TRUE, Body(uri)) ELSE Response(404, TRUE, NoBody)}
    \cup {Response(500, TRUE, NoBody), Response(200, FALSE, NoBody)}

\* The answers to session.delete(url): done, not found, or a failure.
DeleteAnswers(uri) ==
    {IF Exists(uri) THEN Response(200, TRUE, NoBody) ELSE Response(404, TRUE, NoBody)}
    \cup {Response(500, TRUE, NoBody)}

\* The answers to session.post(url, json=record): stored; refused with a JSON
\* error document; refused with a document that is not JSON.
PostAnswers(uri) ==
    {IF Exists(uri) THEN Response(200, TRUE, NoBody) ELSE Response(404, TRUE, NoBody)}
    \cup {Response(409, TRUE, NoBody), Response(502, FALSE, NoBody)}

\* The stores after the server has carried out a request it answered with 200.
StoreDeleted(uri) ==
    /\ archival_objects' = archival_objects
    /\ top_containers' = [u \in DOMAIN top_containers \ {uri} |-> top_containers[u]]
    /\ digital_objects' = [u \in DOMAIN digital_objects \ {uri} |-> digital_objects[u]]

StoreOverwritten_ignored(uri, record) ==
    UNCHANGED <<archival_objects, top_containers, digital_objects>>
StoreOverwritten(uri, record) ==
    /\ archival_objects' = [archival_objects EXCEPT ![uri] = record]
    /\ UNCHANGED <<top_containers, digital_objects>>

-----------------------------------------------------------------------------
(* Notes and what the sweeps decide about one note                         *)

\* The text of a note: its words, the <date> elements that are direct
\* children of its markup in document order, and whether it parses as XML.
Text(words, dates, wellformed) == [words |-> words, dates |-> dates, wellformed |-> wellformed]
DateElement(normal) == [has_normal |-> TRUE, normal |-> normal]
DateElementNoNormal == [has_normal |-> FALSE, normal |-> <<>>]

SinglePart(type, publish, text) ==
    [jsonmodel_type |-> "note_singlepart", type |-> type, publish |-> publish,
     content |-> <<text>>, subnotes |-> <<>>]
MultiPart(type, publish, text) ==
    [jsonmodel_type |-> "note_multipart", type |-> type, publish |-> publish,
     content |-> <<>>, subnotes |-> <<[content |-> text]>>]

format_note(note) ==
    IF note.jsonmodel_type = "note_singlepart" THEN note.content[1]
    ELSE note.subnotes[1].content

\* Python's order on strings: by the code points of the first characters that differ.
CodePoint(c) ==
    CASE c = "-" -> 45 [] c = "/" -> 47 [] c = "0" -> 48 [] c = "1" -> 49
      [] c = "2" -> 50 [] c = "3" -> 51 [] c = "4" -> 52 [] c = "5" -> 53
      [] c = "6" -> 54 [] c = "7" -> 55 [] c = "8" -> 56 [] c = "9" -> 57

RECURSIVE StrLess(_, _)
StrLess(a, b) ==
    IF b = <<>> THEN FALSE
    ELSE IF a = <<>> THEN TRUE
    ELSE IF Head(a) = Head(b) THEN StrLess(Tail(a), Tail(b))
    ELSE CodePoint(Head(a)) < CodePoint(Head(b))

\* datetime.today().strftime("%Y-%m-%d")
Today == <<"2", "0", "2", "4", "-", "0", "6", "-", "1", "5">>
Earlier == <<"2", "0", "1", "9", "-", "1", "2", "-", "3", "1">>
Later == <<"2", "0", "2", "4", "-", "0", "6", "-", "1", "6">>

\* "if note["type"] == "accessrestrict" and note["publish"]"
RestrictionCandidate_anyType(note) == note.publish
RestrictionCandidate(note) == note.type = "accessrestrict" /\ note.publish

\* Lines 581-585 for one note: "unpublish", "skip", or the exception raised.
ExpiryVerdict(note, today) ==
    IF ~RestrictionCandidate(note) THEN "skip"
    ELSE LET accessrestrict == format_note(note)
             accessrestrict_date == accessrestrict.dates
         IN IF ~accessrestrict.wellformed THEN "XMLSyntaxError"
            ELSE IF accessrestrict_date = <<>> THEN "skip"
            ELSE IF ~accessrestrict_date[1].has_normal THEN "KeyError"
            ELSE IF StrLess(accessrestrict_date[1].normal, today) THEN "unpublish"
            ELSE "skip"

\* Lines 605-606 for one note.
TextVerdict(note, restriction_text) ==
    IF RestrictionCandidate(note) /\ format_note(note) = restriction_text
    THEN "unpublish" ELSE "skip"

ExpirySweep == "unpublish_expired_restrictions_for_resource"
TextSweep == "unpublish_restrictions_by_text"

-----------------------------------------------------------------------------
(* Operations and what is remembered of them                               *)

\* The archival objects of a resource: the uris of its tree.
ObjectsOf(resource_number) ==
    SeqToSet(extract_archival_object_uris_from_children(
                 ResourceTree(resource_number).children, <<>>))

\* What unpublish_restrictions_by_text returns when it is given no text.
\* (a string where the other paths return a list)
NoTextMessage == [status |-> "returned_str", value |-> "No restriction text provided"]

\* The resource held, when the text sweep started, a published access
\* restriction whose text is the one the sweep was given.
MatchedBefore ==
    \E uri \in ObjectsOf(op.args.resource_number) :
       \E i \in 1..Len(op.before.archival_objects[uri].notes) :
          LET note == op.before.archival_objects[uri].notes[i]
          IN /\ note.type = "accessrestrict"
             /\ note.publish
             /\ format_note(note) = op.args.restriction_text

\* The operation that last finished, as the next one finds it: what it was
\* called with, whether it returned, and how many log entries it returned.
Finished == IF op.name = "idle" THEN Idle
            ELSE [name |-> op.name, args |-> op.args,
                  returned |-> ret.status \in {"returned", "returned_str"},
                  logged |-> IF ret.status = "returned" THEN Len(ret.value) ELSE 0,
                  matched |-> op.name = TextSweep /\ MatchedBefore]

\* A started operation: its name and arguments, and (for stating properties)
\* the stores as they were when it started and the operation before it.
Operation(name, args) ==
    [name |-> name, args |-> args,
     before |-> [archival_objects |-> archival_objects,
                 top_containers |-> top_containers,
                 digital_objects |-> digital_objects],
     prev |-> Finished]

-----------------------------------------------------------------------------
(* merge_top_containers                                                    *)

\* def _post(self, url, params={}, data=None, expected_response=200)
PostParameters == {"url", "params", "data", "expected_response"}

\* post_aspace_json: self._post(url, params=params, json=json)
PostAspaceJsonArguments == {"url", "params", "json"}

\* Calling a Python function with a keyword it does not declare raises
\* TypeError before its body runs.
CallError(arguments, parameters) ==
    IF arguments \subseteq parameters THEN "none" ELSE "TypeError"

\* update_aspace_object(aspace_uri, aspace_json) up to the request it would send.
UpdateError(aspace_uri, aspace_json) ==
    IF aspace_uri # aspace_json.uri THEN "ArchivesSpaceError"
    ELSE CallError(PostAspaceJsonArguments, PostParameters)

\* Lines 407-411: the instances of the source are repointed to the target;
\* reading instance["sub_container"] of an instance without one is a KeyError.
RepointError(archival_object) ==
    IF \E i \in 1..Len(archival_object.instances) :
          ~HasSubContainer(archival_object.instances[i])
    THEN "KeyError" ELSE "none"

Repointed(archival_object, source_uri, target_uri) ==
    [archival_object EXCEPT !.instances =
        [i \in 1..Len(archival_object.instances) |->
            IF archival_object.instances[i].ref = source_uri
            THEN [archival_object.instances[i] EXCEPT !.ref = target_uri]
            ELSE archival_object.instances[i]]]

\* The for loop of merge_top_containers has run through every uri.
MergeLoopDone_early == TRUE
MergeLoopDone == locals.i > Len(locals.archival_object_uris)

\* merge_top_containers(source_id, target_id) up to the loop: the lookup of
\* the archival objects that reference the source.
MergeStart(source_id, target_id) ==
    /\ pc = "idle"
    /\ nOps < MaxOps
    /\ nOps' = nOps + 1
    /\ op' = Operation("merge_top_containers",
                       [source_id |-> source_id, target_id |-> target_id])
    /\ \E response \in GetAnswers(MetadataUri(source_id)) :
         /\ requests' = <<Request("GET", MetadataUri(source_id), response)>>
         /\ IF RequestError(response) # "none"
            THEN /\ ret' = Raised(RequestError(response))
                 /\ pc' = "idle"
                 /\ locals' = <<>>
            ELSE /\ ret' = NoRet
                 /\ pc' = "merge_loop"
                 /\ locals' =
                      [archival_object_uris |->
                           [i \in 1..Len(response.body.archival_objects) |->
                               response.body.archival_objects[i].archival_object_uri],
                       source_uri |-> TC(source_id),
                       target_uri |-> TC(target_id),
                       i |-> 1,
                       archival_object |-> <<>>]
    /\ UNCHANGED <<backendVars, walkerVars>>

\* One turn of the loop up to the write: fetch the archival object and repoint
\* its instances.
MergeFetch ==
    /\ pc = "merge_loop"
    /\ ~MergeLoopDone
    /\ LET archival_object_uri == locals.archival_object_uris[locals.i]
       IN \E response \in GetAnswers(archival_object_uri) :
            /\ requests' = Append(requests, Request("GET", archival_object_uri, response))
            /\ IF RequestError(response) # "none"
               THEN /\ ret' = Raised(RequestError(response))
                    /\ pc' = "idle"
                    /\ UNCHANGED locals
               ELSE IF RepointError(response.body) # "none"
               THEN /\ ret' = Raised(RepointError(response.body))
                    /\ pc' = "idle"
                    /\ UNCHANGED locals
               ELSE /\ locals' = [locals EXCEPT !.archival_object =
                                      Repointed(response.body, locals.source_uri,
                                                locals.target_uri)]
                    /\ pc' = "merge_update"
                    /\ UNCHANGED ret
    /\ UNCHANGED <<op, nOps, backendVars, walkerVars>>

\* The write of the turn: update_aspace_object(archival_object_uri, archival_object).
MergeUpdate ==
    /\ pc = "merge_update"
    /\ LET archival_object_uri == locals.archival_object_uris[locals.i]
           error == UpdateError(archival_object_uri, locals.archival_object)
       IN IF error # "none"
          THEN /\ ret' = Raised(error)
               /\ pc' = "idle"
               /\ UNCHANGED <<locals, requests, backendVars>>
          ELSE \E response \in PostAnswers(archival_object_uri) :
                 /\ requests' = Append(requests, Request("POST", archival_object_uri, response))
                 /\ IF RequestError(response) # "none"
                    THEN /\ ret' = Raised(RequestError(response))
                         /\ pc' = "idle"
                         /\ UNCHANGED <<locals, backendVars>>
                    ELSE /\ StoreOverwritten(archival_object_uri, locals.archival_object)
                         /\ locals' = [locals EXCEPT !.i = locals.i + 1]
                         /\ pc' = "merge_loop"
                         /\ UNCHANGED ret
    /\ UNCHANGED <<op, nOps, walkerVars>>

\* After the loop: delete_aspace_object(source_uri).
MergeDelete ==
    /\ pc = "merge_loop"
    /\ MergeLoopDone
    /\ \E response \in DeleteAnswers(locals.source_uri) :
         /\ requests' = Append(requests, Request("DELETE", locals.source_uri, response))
         /\ IF RequestError(response) # "none"
            THEN /\ ret' = Raised(RequestError(response))
                 /\ UNCHANGED backendVars
            ELSE /\ ret' = Returned(<<>>)
                 /\ StoreDeleted(locals.source_uri)
    /\ pc' = "idle"
    /\ UNCHANGED <<op, locals, nOps, walkerVars>>

\* Two top containers; each archival object holds up to two instances.
Containers == {1, 2}
MergeInstances ==
    {<<>>, <<ContainerInstance(1)>>, <<ContainerInstance(2)>>,
     <<ContainerInstance(1), ContainerInstance(2)>>,
     <<ContainerInstance(1), ContainerInstance(1)>>,
     <<DigitalObjectInstance(1), ContainerInstance(1)>>}

PlainObject(uri, notes, instances) ==
    ArchivalObject(uri, <<"T">>, <<>>, NoParent, notes, instances)

\* The resources in which a top container is used, as the backend derives it.
CollectionOf(objects, id) ==
    LET uses(uri) == \E i \in 1..Len(objects[uri].instances) :
                        objects[uri].instances[i].ref = TC(id)
    IN (IF uses(AO(1)) \/ uses(AO(2)) THEN <<1>> ELSE <<>>)
       \o (IF uses(AO(3)) THEN <<2>> ELSE <<>>)

\* The instances that link a digital object, as the backend derives it.
LinkedInstancesOf(objects, id) ==
    LET links(uri) == SelectSeq(objects[uri].instances, LAMBDA inst : inst.ref = DO(id))
    IN [i \in 1..Len(links(AO(1)) \o links(AO(2)) \o links(AO(3))) |->
           (<<AO(1)>> \o <<AO(2)>> \o <<AO(3)>>)[
               IF i <= Len(links(AO(1))) THEN 1
               ELSE IF i <= Len(links(AO(1))) + Len(links(AO(2))) THEN 2 ELSE 3]]

InitClient ==
    /\ extractDefault = <<>>
    /\ findDefault = <<>>
    /\ extractCall = NoCall
    /\ findCall = NoCall
    /\ op = Idle
    /\ pc = "idle"
    /\ locals = <<>>
    /\ ret = NoRet
    /\ requests = <<>>
    /\ nOps = 0

InitMerge ==
    /\ \E instances \in [{AO(1), AO(2), AO(3)} -> MergeInstances] :
         LET objects == [uri \in {AO(1), AO(2), AO(3)} |->
                            PlainObject(uri, <<>>, instances[uri])]
         IN /\ archival_objects = objects
            /\ top_containers = [uri \in {TC(1), TC(2)} |->
                                    TopContainer(uri, CollectionOf(objects, uri.id))]
            /\ digital_objects = [uri \in {DO(1)} |->
                                    DigitalObject(uri, LinkedInstancesOf(objects, uri.id))]
    /\ InitClient

NextMerge ==
    \/ \E source_id \in Containers \cup {3}, target_id \in Containers :
          MergeStart(source_id, target_id)
    \/ MergeFetch
    \/ MergeUpdate
    \/ MergeDelete

SpecMerge == InitMerge /\ [][NextMerge]_vars

-----------------------------------------------------------------------------
(* The two restriction sweeps                                              *)

Verdict(note) ==
    IF op.name = ExpirySweep THEN ExpiryVerdict(note, op.args.today)
    ELSE TextVerdict(note, op.args.restriction_text)

\* The loop over archival_object["notes"]: the record as edited, the entries
\* appended to the log, whether a note changed, and the exception that ended
\* the loop, if any.
\* verdict[i] is what the loop does with the i-th note.
ProcessNotesBy(verdict, archival_object_uri, archival_object) ==
    LET notes == archival_object.notes
        failing == {i \in 1..Len(notes) : verdict[i] \notin {"skip", "unpublish"}}
        changed == SelectSeq([i \in 1..Len(notes) |-> i], LAMBDA i : verdict[i] = "unpublish")
    IN [error |-> IF failing = {} THEN "none"
                  ELSE verdict[CHOOSE i \in failing : \A j \in failing : i <= j],
        archival_object |->
            [archival_object EXCEPT !.notes =
                [i \in 1..Len(notes) |->
                    IF verdict[i] = "unpublish"
                    THEN [notes[i] EXCEPT !.publish = FALSE] ELSE notes[i]]],
        entries |-> [k \in 1..Len(changed) |->
                        [uri |-> archival_object_uri,
                         title |-> archival_object.display_string,
                         restriction |-> format_note(notes[changed[k]])]],
        update_archival_object |-> changed # <<>>]

ProcessNotes(archival_object_uri, archival_object) ==
    ProcessNotesBy([i \in 1..Len(archival_object.notes) |->
                       Verdict(archival_object.notes[i])],
                   archival_object_uri, archival_object)

\* The restriction_text argument left at its default False, or given as "".
PyFalse == [python |-> "False"]
EmptyText == Text("", <<>>, TRUE)
TextTruthy_emptyCounts(restriction_text) == restriction_text # PyFalse
TextTruthy(restriction_text) == restriction_text \notin {PyFalse, EmptyText}

\* Either sweep up to its loop: the guard of the text variant, then
\* get_resource_archival_object_uris (the tree, flattened into the default list).
SweepStart(name, resource_number, restriction_text) ==
    /\ pc = "idle"
    /\ nOps < MaxOps
    /\ nOps' = nOps + 1
    /\ op' = Operation(name, [resource_number |-> resource_number,
                              restriction_text |-> restriction_text,
                              today |-> Today])
    /\ IF name = TextSweep /\ ~TextTruthy(restriction_text)
       THEN /\ ret' = NoTextMessage
            /\ pc' = "idle"
            /\ locals' = <<>>
            /\ requests' = <<>>
            /\ UNCHANGED walkerVars
       ELSE \E response \in GetAnswers(TreeUri(resource_number)) :
              /\ requests' = <<Request("GET", TreeUri(resource_number), response)>>
              /\ IF RequestError(response) # "none"
                 THEN /\ ret' = Raised(RequestError(response))
                      /\ pc' = "idle"
                      /\ locals' = <<>>
                      /\ UNCHANGED walkerVars
                 ELSE /\ extractDefault' = extract_archival_object_uris_from_children(
                                              response.body.children, extractDefault)
                      /\ extractCall' = CallRecord(response.body.children, "False", FALSE,
                                                   extractDefault, extractDefault')
                      /\ locals' = [archival_object_uris |-> extractDefault',
                                    i |-> 1,
                                    unpublished_log |-> <<>>,
                                    archival_object |-> <<>>]
                      /\ ret' = NoRet
                      /\ pc' = "sweep_loop"
                      /\ UNCHANGED <<findDefault, findCall>>
    /\ UNCHANGED backendVars

\* One turn of the loop up to the write: fetch the record and go through its notes.
SweepFetch ==
    /\ pc = "sweep_loop"
    /\ locals.i <= Len(locals.archival_object_uris)
    /\ LET archival_object_uri == locals.archival_object_uris[locals.i]
       IN \E response \in GetAnswers(archival_object_uri) :
            /\ requests' = Append(requests, Request("GET", archival_object_uri, response))
            /\ IF RequestError(response) # "none"
               THEN /\ ret' = Raised(RequestError(response))
                    /\ pc' = "idle"
                    /\ UNCHANGED locals
               ELSE LET done == ProcessNotes(archival_object_uri, response.body)
                    IN IF done.error # "none"
                       THEN /\ ret' = Raised(done.error)
                            /\ pc' = "idle"
                            /\ UNCHANGED locals
                       ELSE /\ locals' =
                                 [locals EXCEPT
                                    !.archival_object = done.archival_object,
                                    !.unpublished_log = locals.unpublished_log \o done.entries,
                                    !.i = IF done.update_archival_object
                                          THEN locals.i ELSE locals.i + 1]
                            /\ pc' = IF done.update_archival_object
                                     THEN "sweep_post" ELSE "sweep_loop"
                            /\ UNCHANGED ret
    /\ UNCHANGED <<op, nOps, backendVars, walkerVars>>

\* The write of the turn: self.session.post(url, json=archival_object).json().
\* The status of the answer is not looked at; a body that is not JSON makes
\* .json() raise.
SweepPost ==
    /\ pc = "sweep_post"
    /\ LET archival_object_uri == locals.archival_object_uris[locals.i]
       IN \E response \in PostAnswers(archival_object_uri) :
            /\ requests' = Append(requests, Request("POST", archival_object_uri, response))
            /\ IF response.status = 200
               THEN StoreOverwritten(archival_object_uri, locals.archival_object)
               ELSE UNCHANGED backendVars
            /\ IF ~response.is_json
               THEN /\ ret' = Raised("ValueError")
                    /\ pc' = "idle"
                    /\ UNCHANGED locals
               ELSE /\ locals' = [locals EXCEPT !.i = locals.i + 1]
                    /\ pc' = "sweep_loop"
                    /\ UNCHANGED ret
    /\ UNCHANGED <<op, nOps, walkerVars>>

SweepReturn ==
    /\ pc = "sweep_loop"
    /\ locals.i > Len(locals.archival_object_uris)
    /\ ret' = Returned(locals.unpublished_log)
    /\ pc' = "idle"
    /\ UNCHANGED <<op, locals, requests, nOps, backendVars, walkerVars>>

-----------------------------------------------------------------------------
(* remove_resource_associations                                            *)

\* find_instance_uris(aspace_uri) on the fetched record, instance_type left False.
InstanceUrisOf(aspace_json) ==
    [i \in 1..Len(aspace_json.instances) |-> aspace_json.instances[i].ref]

\* "len(...) == 1" of delete_single_resource_instances.
IsSingle_atLeastOne(count) == count >= 1
IsSingle(count) == count = 1

\* The length delete_single_resource_instances looks at, by the kind of uri.
SharingCount(instance_uri, record) ==
    IF instance_uri.type = "digital_objects" THEN Len(record.linked_instances)
    ELSE Len(record.collection)

\* remove_resource_associations(resource_number) up to its first loop: the
\* tree, walked into the default list of find_children_with_instances.
AssocStart(resource_number) ==
    /\ pc = "idle"
    /\ nOps < MaxOps
    /\ nOps' = nOps + 1
    /\ op' = Operation("remove_resource_associations", [resource_number |-> resource_number])
    /\ \E response \in GetAnswers(TreeUri(resource_number)) :
         /\ requests' = <<Request("GET", TreeUri(resource_number), response)>>
         /\ IF RequestError(response) # "none"
            THEN /\ ret' = Raised(RequestError(response))
                 /\ pc' = "idle"
                 /\ locals' = <<>>
                 /\ UNCHANGED walkerVars
            ELSE /\ findDefault' = find_children_with_instances(
                                      response.body.children, findDefault, "False")
                 /\ findCall' = CallRecord(response.body.children, "False", FALSE,
                                           findDefault, findDefault')
                 /\ locals' = [children_with_instances |-> findDefault',
                               i |-> 1,
                               instance_uris |-> <<>>,
                               todo |-> {}]
                 /\ ret' = NoRet
                 /\ pc' = "assoc_collect"
                 /\ UNCHANGED <<extractDefault, extractCall>>
    /\ UNCHANGED backendVars

\* One turn of the first loop: instance_uris.extend(self.find_instance_uris(child_uri)).
AssocCollect ==
    /\ pc = "assoc_collect"
    /\ locals.i <= Len(locals.children_with_instances)
    /\ LET child_uri == locals.children_with_instances[locals.i]
       IN \E response \in GetAnswers(child_uri) :
            /\ requests' = Append(requests, Request("GET", child_uri, response))
            /\ IF RequestError(response) # "none"
               THEN /\ ret' = Raised(RequestError(response))
                    /\ pc' = "idle"
                    /\ UNCHANGED locals
               ELSE /\ locals' = [locals EXCEPT
                                     !.instance_uris = @ \o InstanceUrisOf(response.body),
                                     !.i = locals.i + 1]
                    /\ UNCHANGED <<ret, pc>>
    /\ UNCHANGED <<op, nOps, backendVars, walkerVars>>

\* Between the loops: set(instance_uris).
AssocDeduplicate ==
    /\ pc = "assoc_collect"
    /\ locals.i > Len(locals.children_with_instances)
    /\ locals' = [locals EXCEPT !.todo = SeqToSet(locals.instance_uris)]
    /\ pc' = "assoc_delete"
    /\ UNCHANGED <<op, ret, requests, nOps, backendVars, walkerVars>>

\* One turn of the second loop, the set being gone through in any order:
\* delete_single_resource_instances(instance_uri).
AssocExamine(instance_uri) ==
    /\ pc = "assoc_delete"
    /\ instance_uri \in locals.todo
    /\ IF instance_uri.type \notin {"digital_objects", "top_containers"}
       THEN /\ locals' = [locals EXCEPT !.todo = @ \ {instance_uri}]
            /\ UNCHANGED <<ret, pc, requests, backendVars>>
       ELSE \E response \in GetAnswers(instance_uri) :
              LET fetched == Append(requests, Request("GET", instance_uri, response))
              IN IF RequestError(response) # "none"
                 THEN /\ requests' = fetched
                      /\ ret' = Raised(RequestError(response))
                      /\ pc' = "idle"
                      /\ UNCHANGED <<locals, backendVars>>
                 ELSE IF ~IsSingle(SharingCount(instance_uri, response.body))
                 THEN /\ requests' = fetched
                      /\ locals' = [locals EXCEPT !.todo = @ \ {instance_uri}]
                      /\ UNCHANGED <<ret, pc, backendVars>>
                 ELSE \E deleted \in DeleteAnswers(instance_uri) :
                        /\ requests' = Append(fetched, Request("DELETE", instance_uri, deleted))
                        /\ IF RequestError(deleted) # "none"
                           THEN /\ ret' = Raised(RequestError(deleted))
                                /\ pc' = "idle"
                                /\ UNCHANGED <<locals, backendVars>>
                           ELSE /\ StoreDeleted(instance_uri)
                                /\ locals' = [locals EXCEPT !.todo = @ \ {instance_uri}]
                                /\ UNCHANGED <<ret, pc>>
    /\ UNCHANGED <<op, nOps, walkerVars>>

AssocReturn ==
    /\ pc = "assoc_delete"
    /\ locals.todo = {}
    /\ ret' = Returned(<<>>)
    /\ pc' = "idle"
    /\ UNCHANGED <<op, locals, requests, nOps, backendVars, walkerVars>>

InstanceUris == {TC(1), TC(2), DO(1)}

-----------------------------------------------------------------------------
(* The bulk operations on one repository                                   *)

TxtPlain == Text("closed", <<>>, TRUE)
TxtEarlier == Text("closed", <<DateElement(Earlier)>>, TRUE)
TxtToday == Text("closed", <<DateElement(Today)>>, TRUE)
TxtLater == Text("closed", <<DateElement(Later)>>, TRUE)
TxtLaterEarlier == Text("closed", <<DateElement(Later), DateElement(Earlier)>>, TRUE)
TxtNoNormal == Text("closed", <<DateElementNoNormal>>, TRUE)
TxtMalformed == Text("closed &", <<>>, FALSE)
Texts == {TxtPlain, TxtEarlier, TxtToday, TxtLater, TxtLaterEarlier, TxtNoNormal, TxtMalformed}

\* The notes of ao1: one published access restriction of any text, or an
\* unpublished one; two restrictions; a note of another type before a
\* restriction.
NotesOfAO1 ==
    {<<SinglePart("accessrestrict", TRUE, text)>> : text \in Texts}
    \cup {<<SinglePart("accessrestrict", FALSE, TxtEarlier)>>}
    \cup {<<SinglePart("accessrestrict", TRUE, TxtEarlier),
            SinglePart("accessrestrict", TRUE, text)>> : text \in {TxtEarlier, TxtPlain}}
    \cup {<<SinglePart("scopecontent", TRUE, TxtEarlier),
            SinglePart("accessrestrict", TRUE, TxtEarlier)>>}

NotesOfAO2 ==
    {<<>>, <<MultiPart("accessrestrict", TRUE, TxtEarlier)>>}

NotesOfAO3 ==
    {<<SinglePart("accessrestrict", TRUE, TxtEarlier)>>}

RestrictionTexts == {PyFalse, EmptyText, TxtPlain, TxtEarlier}

\* ao1 sits in top container 1, which no other resource uses, and links
\* digital object 1; top container 2 is unused.
Init ==
    /\ \E notes1 \in NotesOfAO1, notes2 \in NotesOfAO2, notes3 \in NotesOfAO3 :
         LET objects ==
                (AO(1) :> PlainObject(AO(1), notes1, <<ContainerInstance(1)>>))
                @@ (AO(2) :> PlainObject(AO(2), notes2, <<>>))
                @@ (AO(3) :> PlainObject(AO(3), notes3, <<DigitalObjectInstance(1)>>))
         IN /\ archival_objects = objects
            /\ top_containers = [uri \in {TC(1), TC(2)} |->
                                    TopContainer(uri, CollectionOf(objects, uri.id))]
            /\ digital_objects = [uri \in {DO(1)} |->
                                    DigitalObject(uri, LinkedInstancesOf(objects, uri.id))]
    /\ InitClient

Next ==
    \/ \E resource_number \in Resources :
          SweepStart(ExpirySweep, resource_number, PyFalse)
    \/ \E resource_number \in Resources, restriction_text \in RestrictionTexts :
          SweepStart(TextSweep, resource_number, restriction_text)
    \/ SweepFetch
    \/ SweepPost
    \/ SweepReturn
    \/ \E source_id \in Containers, target_id \in Containers :
          source_id # target_id /\ MergeStart(source_id, target_id)
    \/ MergeFetch
    \/ MergeUpdate
    \/ MergeDelete
    \/ \E resource_number \in Resources : AssocStart(resource_number)
    \/ AssocCollect
    \/ AssocDeduplicate
    \/ \E instance_uri \in InstanceUris : AssocExamine(instance_uri)
    \/ AssocReturn

Spec == Init /\ [][Next]_vars

\* The instances of each archival object and how far the containers and the
\* digital object are shared with resources outside the two modelled.
AssocInstances ==
    {<<>>, <<ContainerInstance(1)>>, <<DigitalObjectInstance(1)>>,
     <<DigitalObjectInstance(1), ContainerInstance(1)>>,
     <<ContainerInstance(1), ContainerInstance(2)>>,
     <<ContainerInstance(2), ContainerInstance(2)>>}

InitAssoc ==
    /\ \E instances \in [{AO(1), AO(2), AO(3)} -> AssocInstances],
          elsewhere \in [InstanceUris -> BOOLEAN] :
         LET objects == [uri \in {AO(1), AO(2), AO(3)} |->
                            PlainObject(uri, <<>>, instances[uri])]
         IN /\ archival_objects = objects
            /\ top_containers =
                 [uri \in {TC(1), TC(2)} |->
                     TopContainer(uri, CollectionOf(objects, uri.id)
                                       \o (IF elsewhere[uri] THEN <<9>> ELSE <<>>))]
            /\ digital_objects =
                 [uri \in {DO(1)} |->
                     DigitalObject(uri, LinkedInstancesOf(objects, uri.id)
                                        \o (IF elsewhere[uri] THEN <<AO(9)>> ELSE <<>>))]
    /\ InitClient

NextAssoc ==
    \/ \E resource_number \in Resources : AssocStart(resource_number)
    \/ AssocCollect
    \/ AssocDeduplicate
    \/ \E instance_uri \in InstanceUris : AssocExamine(instance_uri)
    \/ AssocReturn

SpecAssoc == InitAssoc /\ [][NextAssoc]_vars

RequestLayerErrors == {"CommunicationError", "ArchivesSpaceError"}

MergeEnded == op.name = "merge_top_containers" /\ pc = "idle"

ReferencedBefore(uri, target) ==
    \E i \in 1..Len(op.before.archival_objects[uri].instances) :
        op.before.archival_objects[uri].instances[i].ref = target

\* C1: a merge of a stored source into another stored target, none of whose
\* requests the backend failed, returns; every archival object that referenced
\* the source is then stored with those instances pointing at the target, no
\* stored archival object references the source, and the source is gone.
C1_MergeRepointsAndDeletes ==
    (/\ MergeEnded
     /\ op.args.source_id # op.args.target_id
     /\ TC(op.args.source_id) \in DOMAIN op.before.top_containers
     /\ TC(op.args.target_id) \in DOMAIN op.before.top_containers
     /\ ~(ret.status = "raised" /\ ret.error \in RequestLayerErrors)) =>
        /\ ret.status = "returned"
        /\ TC(op.args.source_id) \notin DOMAIN top_containers
        /\ \A uri \in DOMAIN archival_objects :
              /\ ~References(uri, TC(op.args.source_id))
              /\ archival_objects[uri] =
                    Repointed(op.before.archival_objects[uri],
                              TC(op.args.source_id), TC(op.args.target_id))

\* The archival objects the running merge has written back.
MergeWritten ==
    IF locals = <<>> THEN {}
    ELSE {locals.archival_object_uris[k] : k \in 1..(locals.i - 1)}

-----------------------------------------------------------------------------
(* The helpers against their description (sections 4.1, 4.2 of the spec)   *)

\* The nodes a pre-order walk visits: every node of the sequence, and the
\* children of each node whose has_children is true.
RECURSIVE PreOrderNodes(_)
PreOrderNodes(children) ==
    IF children = <<>> THEN <<>>
    ELSE <<Head(children)>>
         \o (IF Head(children).has_children THEN PreOrderNodes(Head(children).children) ELSE <<>>)
         \o PreOrderNodes(Tail(children))

\* Every node nested anywhere in the sequence, whatever has_children says.
RECURSIVE NestedNodes(_)
NestedNodes(children) ==
    IF children = <<>> THEN <<>>
    ELSE <<Head(children)>> \o NestedNodes(Head(children).children) \o NestedNodes(Tail(children))

UrisOf(nodes) == [i \in 1..Len(nodes) |-> nodes[i].record_uri]

Qualifies(node, filter) ==
    /\ node.instance_types # {}
    /\ (filter = "False" \/ filter \in node.instance_types)

QualifyingUris(children, filter) ==
    UrisOf(SelectSeq(PreOrderNodes(children), LAMBDA n : Qualifies(n, filter)))

TreeUris == {AO(1), AO(2), AO(3)}

\* C3: a call made without an explicit accumulator returns only uris of nodes
\* of the children passed to that call, none more often than the node occurs
\* there (the extractor: exactly as often), whatever calls were made before.
C3_FreshSequencePerCall ==
    /\ (extractCall.made /\ ~extractCall.explicit) =>
          \A u \in TreeUris :
             Count(u, extractCall.result) = Count(u, UrisOf(PreOrderNodes(extractCall.children)))
    /\ (findCall.made /\ ~findCall.explicit) =>
          \A u \in TreeUris :
             Count(u, findCall.result) <= Count(u, UrisOf(NestedNodes(findCall.children)))

\* C9: when the extractor and the unfiltered walker were last called on the
\* same children, the extractor's result is at least as long as the walker's
\* and holds every uri of the walker's.
C9_FlattenCoversWalker ==
    (/\ extractCall.made /\ findCall.made
     /\ ~extractCall.explicit /\ ~findCall.explicit
     /\ findCall.filter = "False"
     /\ extractCall.children = findCall.children) =>
        /\ Len(extractCall.result) >= Len(findCall.result)
        /\ SeqToSet(findCall.result) \subseteq SeqToSet(extractCall.result)

\* C10: find_children_with_instances returns exactly the pre-order sequence of
\* the uris of the visited nodes that carry instances (of the filter's type).
C10_ReturnsQualifyingPreOrder ==
    findCall.made => findCall.result = QualifyingUris(findCall.children, findCall.filter)

\* What the code does instead: each call appends its walk to the accumulator it
\* was given, so a call on the default list returns the earlier calls' uris too.
WalkerAppendsToAccumulator ==
    /\ findCall.made =>
          findCall.result = findCall.before \o QualifyingUris(findCall.children, findCall.filter)
    /\ extractCall.made =>
          extractCall.result = extractCall.before \o UrisOf(PreOrderNodes(extractCall.children))
    /\ (findCall.made /\ ~findCall.explicit) => findCall.result = findDefault
    /\ (extractCall.made /\ ~extractCall.explicit) => extractCall.result = extractDefault

-----------------------------------------------------------------------------
(* The sweeps against their description (section 4.6 of the spec)          *)

NotesBefore(uri) == op.before.archival_objects[uri].notes
NotesNow(uri) == archival_objects[uri].notes

PublishedRestriction(note) == note.type = "accessrestrict" /\ note.publish

\* The note carries a date whose normalized value is before the day of the sweep.
Expired(note) ==
    \E k \in 1..Len(format_note(note).dates) :
       /\ format_note(note).dates[k].has_normal
       /\ StrLess(format_note(note).dates[k].normal, op.args.today)

\* How often the returned log names a note of the record with this text.
LogEntries(uri, text) ==
    Cardinality({k \in 1..Len(ret.value) :
                    ret.value[k].uri = uri /\ ret.value[k].restriction = text})

ExpirySweepReturned ==
    op.name = ExpirySweep /\ pc = "idle" /\ ret.status = "returned"

\* C5: after an expiry sweep has returned, every access restriction of the
\* resource that was published and carries at most one date element is stored
\* unpublished if and only if that date is before the day of the sweep; the
\* log names each such note once and names no note that stays published.
C5_ExpirySweepUnpublishesExpired ==
    ExpirySweepReturned =>
       \A uri \in ObjectsOf(op.args.resource_number) :
          LET considered == {i \in 1..Len(NotesBefore(uri)) :
                                /\ PublishedRestriction(NotesBefore(uri)[i])
                                /\ Len(format_note(NotesBefore(uri)[i]).dates) <= 1}
              due == {i \in considered : Expired(NotesBefore(uri)[i])}
          IN \A i \in considered :
                /\ ~NotesNow(uri)[i].publish <=> i \in due
                /\ LogEntries(uri, format_note(NotesBefore(uri)[i])) =
                      Cardinality({j \in due : format_note(NotesBefore(uri)[j])
                                                 = format_note(NotesBefore(uri)[i])})

\* C6: a text sweep that returns right after a returned text sweep of the
\* same resource and text, which found a matching published note, finds the
\* first log non-empty, returns an empty log and has sent no write.
C6_TextSweepIdempotent ==
    (/\ op.name = TextSweep
     /\ pc = "idle"
     /\ ret.status = "returned"
     /\ op.prev.name = TextSweep
     /\ op.prev.args = op.args
     /\ op.prev.returned
     /\ op.prev.matched) =>
        /\ op.prev.logged > 0
        /\ ret.value = <<>>
        /\ \A k \in 1..Len(requests) : requests[k].method # "POST"

\* C7: whatever a bulk operation has done so far, every archival object it
\* found is stored with as many notes of the same types; no note that was
\* unpublished when the operation started is published, and no note of a type
\* other than accessrestrict has changed its publish flag.
C7_PublishOnlyFalls ==
    op.name # "idle" =>
       \A uri \in DOMAIN op.before.archival_objects :
          /\ uri \in DOMAIN archival_objects
          /\ Len(NotesNow(uri)) = Len(NotesBefore(uri))
          /\ \A i \in 1..Len(NotesBefore(uri)) :
                /\ NotesNow(uri)[i].type = NotesBefore(uri)[i].type
                /\ ~NotesBefore(uri)[i].publish => ~NotesNow(uri)[i].publish
                /\ NotesBefore(uri)[i].type # "accessrestrict" =>
                      NotesNow(uri)[i].publish = NotesBefore(uri)[i].publish

\* A sweep has returned after unpublishing an access restriction of a record
\* that also holds a published note of another type, while another record
\* holds a restriction that was unpublished before the sweep started.
C7_Witness ==
    /\ op.name \in {ExpirySweep, TextSweep}
    /\ pc = "idle"
    /\ ret.status = "returned"
    /\ \E uri \in DOMAIN archival_objects :
          \E i, j \in 1..Len(NotesBefore(uri)) :
             /\ NotesBefore(uri)[i].type # "accessrestrict"
             /\ NotesBefore(uri)[i].publish
             /\ NotesNow(uri)[i].publish
             /\ PublishedRestriction(NotesBefore(uri)[j])
             /\ ~NotesNow(uri)[j].publish
    /\ \E uri \in DOMAIN archival_objects :
          \E k \in 1..Len(NotesBefore(uri)) : ~NotesBefore(uri)[k].publish

-----------------------------------------------------------------------------
(* remove_resource_associations against its description (section 4.5)      *)

StoredBefore(uri) ==
    uri \in DOMAIN op.before.top_containers \cup DOMAIN op.before.digital_objects

\* The number of uses the backend recorded for the object when the call started.
CountBefore(uri) ==
    IF uri.type = "digital_objects"
    THEN Len(op.before.digital_objects[uri].linked_instances)
    ELSE Len(op.before.top_containers[uri].collection)

Sent(method, uri) ==
    {k \in 1..Len(requests) : requests[k].method = method /\ requests[k].uri = uri}

\* C8: at every point of remove_resource_associations, a DELETE has been sent
\* only for an object fetched just before it whose count was 1; every object
\* with another count is stored as it was; no record has been written; and no
\* referenced uri has been fetched twice.
C8_DeletesOnlyUnshared ==
    op.name = "remove_resource_associations" =>
       /\ \A k \in 1..Len(requests) :
             /\ requests[k].method # "POST"
             /\ requests[k].method = "DELETE" =>
                   /\ StoredBefore(requests[k].uri)
                   /\ CountBefore(requests[k].uri) = 1
                   /\ k > 1
                   /\ requests[k - 1] =
                         [method |-> "GET", uri |-> requests[k].uri, status |-> 200]
       /\ \A uri \in DOMAIN op.before.top_containers :
             CountBefore(uri) # 1 =>
                /\ uri \in DOMAIN top_containers
                /\ top_containers[uri] = op.before.top_containers[uri]
       /\ \A uri \in DOMAIN op.before.digital_objects :
             CountBefore(uri) # 1 =>
                /\ uri \in DOMAIN digital_objects
                /\ digital_objects[uri] = op.before.digital_objects[uri]
       /\ archival_objects = op.before.archival_objects
       /\ \A uri \in InstanceUris : Cardinality(Sent("GET", uri)) <= 1

\* A call has returned after deleting an object used once and fetching, and
\* leaving stored, an object used more than once.
C8_Witness ==
    /\ op.name = "remove_resource_associations"
    /\ pc = "idle"
    /\ ret.status = "returned"
    /\ \E k \in 1..Len(requests) :
          /\ requests[k].method = "DELETE"
          /\ requests[k].status = 200
          /\ ~Exists(requests[k].uri)
    /\ \E uri \in InstanceUris :
          /\ StoredBefore(uri)
          /\ CountBefore(uri) > 1
          /\ Sent("GET", uri) # {}
          /\ Exists(uri)

-----------------------------------------------------------------------------
(* build_hierarchy against its description (section 4.3 of the spec)       *)

AncestorsOf(uri) == Ancestors(uri, Cardinality(ChainUris) + 1)

\* A walk over a chain without a cycle whose every ancestor is stored, ended
\* without an error of the request layer.
HierarchyEnded ==
    /\ op.name = "build_hierarchy"
    /\ pc = "idle"
    /\ AcyclicFrom(op.uri)
    /\ \A i \in 1..Len(AncestorsOf(op.uri)) : AncestorsOf(op.uri)[i] \in DOMAIN archival_objects
    /\ ~(ret.status = "raised" /\ ret.error \in RequestLayerErrors)

\* The display strings of the ancestors, from the root-most to the parent.
AncestorTitles(uri) ==
    Reverse([i \in 1..Len(AncestorsOf(uri)) |->
                make_display_string(archival_objects[AncestorsOf(uri)[i]])])

Displayable(uri) ==
    archival_objects[uri].title # <<>> \/ archival_objects[uri].dates # <<>>

\* C11: build_hierarchy on a chain without a cycle returns the display strings
\* of the ancestors alone, root-most first, joined by " > " (the empty string
\* for a node without a parent), after exactly one fetch per ancestor.
C11_HierarchyOfAncestors ==
    HierarchyEnded =>
       /\ ret.status = "returned"
       /\ ret.value = Join(AncestorTitles(op.uri), <<" ", op.delimiter, " ">>)
       /\ Len(requests) = Len(AncestorsOf(op.uri))
       /\ \A i \in 1..Len(requests) :
             requests[i] = [method |-> "GET", uri |-> AncestorsOf(op.uri)[i], status |-> 200]

\* The same, for chains whose every ancestor has a title or dates.
HierarchyOfDisplayableAncestors ==
    (HierarchyEnded
     /\ \A i \in 1..Len(AncestorsOf(op.uri)) : Displayable(AncestorsOf(op.uri)[i])) =>
       /\ ret.status = "returned"
       /\ ret.value = Join(AncestorTitles(op.uri), <<" ", op.delimiter, " ">>)
       /\ Len(requests) = Len(AncestorsOf(op.uri))
       /\ \A i \in 1..Len(requests) :
             requests[i] = [method |-> "GET", uri |-> AncestorsOf(op.uri)[i], status |-> 200]

-----------------------------------------------------------------------------
(* format_dates on its own                                                 *)

MaxDates == 3       \* entries of the aspace_json["dates"] lists tried

\* Entries of each date_type with an expression (one needing a trim), with
\* begin and end, with begin only, with end only, and with nothing.
DateEntries ==
    {DateEntry("inclusive", <<"A">>, <<>>, <<>>),
     DateEntry("inclusive", <<" ", "C", " ">>, <<>>, <<>>),
     DateEntry("inclusive", <<>>, <<"1">>, <<"2">>),
     DateEntry("inclusive", <<>>, <<"1">>, <<>>),
     DateEntry("inclusive", <<>>, <<>>, <<"2">>),
     DateEntry("inclusive", <<>>, <<>>, <<>>),
     DateEntry("bulk", <<"B">>, <<>>, <<>>),
     DateEntry("bulk", <<>>, <<"3">>, <<"4">>),
     DateEntry("single", <<"S">>, <<>>, <<>>)}

DateLists == UNION {[1..n -> DateEntries] : n \in 0..MaxDates}

\* self.format_dates(aspace_json) called on a record the caller holds.
CallFormatDates ==
    /\ pc = "idle"
    /\ op = Idle
    /\ op' = [name |-> "format_dates"]
    /\ ret' = Returned(format_dates(locals.aspace_json))
    /\ UNCHANGED <<pc, locals, requests, nOps, backendVars, walkerVars>>

InitDates ==
    /\ \E dates \in DateLists : locals = [aspace_json |-> [dates |-> dates]]
    /\ archival_objects = <<>>
    /\ top_containers = <<>>
    /\ digital_objects = <<>>
    /\ extractDefault = <<>>
    /\ findDefault = <<>>
    /\ extractCall = NoCall
    /\ findCall = NoCall
    /\ op = Idle
    /\ pc = "idle"
    /\ ret = NoRet
    /\ requests = <<>>
    /\ nOps = 0

NextDates == CallFormatDates

SpecDates == InitDates /\ [][NextDates]_vars

\* The text an entry contributes according to section 4.5 of the spec.
EffectiveExpression(date) == Strip(DateExpression(date))

\* The output section 4.5 describes for a list of entries.
DescribedDates(dates) ==
    LET inclusive == SelectSeq(dates, LAMBDA d : d.date_type = "inclusive"
                                                 /\ EffectiveExpression(d) # <<>>)
        bulk == SelectSeq(dates, LAMBDA d : d.date_type = "bulk")
        joined == Join([i \in 1..Len(inclusive) |-> EffectiveExpression(inclusive[i])],
                       <<",", " ">>)
    IN IF bulk = <<>> THEN joined
       ELSE joined \o <<" ", "(", "b", "u", "l", "k", " ">>
                   \o EffectiveExpression(bulk[1]) \o <<")">>

FormatDatesReturned == op.name = "format_dates" /\ ret.status = "returned"

\* C12: format_dates returns the comma-join of the non-empty expressions of
\* the inclusive entries in input order, then " (bulk X)" for the first bulk
\* entry if there is one; entries without text and entries of other types
\* add nothing, and an empty list gives the empty string.
C12_FormatDatesJoinsNonEmpty ==
    FormatDatesReturned => ret.value = DescribedDates(locals.aspace_json.dates)

\* The same, for lists whose inclusive entries all carry text.
FormatDatesOfEntriesWithText ==
    (FormatDatesReturned
     /\ \A i \in 1..Len(locals.aspace_json.dates) :
           locals.aspace_json.dates[i].date_type = "inclusive" =>
              EffectiveExpression(locals.aspace_json.dates[i]) # <<>>) =>
        ret.value = DescribedDates(locals.aspace_json.dates)

-----------------------------------------------------------------------------
(* The sweeps when a request fails (section 7 of the spec)                 *)

IsSweep == op.name \in {ExpirySweep, TextSweep}

\* The record as the running sweep leaves it: the notes it decides to
\* unpublish unpublished, everything else as found.
Swept(archival_object) ==
    [archival_object EXCEPT !.notes =
        [i \in 1..Len(archival_object.notes) |->
            IF Verdict(archival_object.notes[i]) = "unpublish"
            THEN [archival_object.notes[i] EXCEPT !.publish = FALSE]
            ELSE archival_object.notes[i]]]

\* The archival objects a write of which the backend has accepted.
WrittenBack ==
    {requests[k].uri : k \in {j \in 1..Len(requests) :
                                 requests[j].method = "POST" /\ requests[j].status = 200}}

\* The archival objects the sweep has asked for, in the order of the requests.
FetchedObjects ==
    LET gets == SelectSeq(requests, LAMBDA r : r.method = "GET"
                                              /\ r.uri.type = "archival_objects")
    IN [k \in 1..Len(gets) |-> gets[k].uri]

SweepFailedOnFetch ==
    /\ IsSweep
    /\ pc = "idle"
    /\ ret.status = "raised"
    /\ ret.error \in RequestLayerErrors
    /\ requests # <<>>
    /\ requests[Len(requests)].method = "GET"

\* C13: a sweep that ended on a failed fetch raised the error of the request
\* layer for that answer; the failed fetch is its last request, every earlier
\* fetch succeeded, the nodes after the failing one were neither fetched nor
\* written, and the records whose write the backend accepted are stored as
\* the sweep left them while all others are stored as found.
C13_SweepStopsAtFailedFetch ==
    SweepFailedOnFetch =>
       LET last == requests[Len(requests)]
       IN /\ ret.error = IF last.status # 200 THEN "CommunicationError"
                         ELSE "ArchivesSpaceError"
          /\ \A k \in 1..(Len(requests) - 1) :
                requests[k].method = "GET" => requests[k].status = 200
          /\ IF locals = <<>>
             THEN Len(requests) = 1 /\ last.uri = TreeUri(op.args.resource_number)
             ELSE /\ FetchedObjects = SubSeq(locals.archival_object_uris, 1, locals.i)
                  /\ \A k \in 1..Len(requests) :
                        requests[k].method = "POST" =>
                           \E j \in 1..(locals.i - 1) :
                              locals.archival_object_uris[j] = requests[k].uri
          /\ \A uri \in DOMAIN archival_objects :
                archival_objects[uri] =
                   IF uri \in WrittenBack THEN Swept(op.before.archival_objects[uri])
                   ELSE op.before.archival_objects[uri]
          /\ top_containers = op.before.top_containers
          /\ digital_objects = op.before.digital_objects

\* A sweep failed on the fetch of a node after the backend had accepted the
\* write of an earlier one, with a later node still to come.
C13_Witness ==
    /\ SweepFailedOnFetch
    /\ locals # <<>>
    /\ locals.i < Len(locals.archival_object_uris)
    /\ \E uri \in WrittenBack :
          archival_objects[uri] # op.before.archival_objects[uri]

-----------------------------------------------------------------------------
(* The text sweep without a text                                           *)

CalledWithoutText ==
    op.name = TextSweep /\ op.args.restriction_text \in {PyFalse, EmptyText}

\* C14: a text sweep called with no text, or with the empty text, has ended
\* at once: it sent no request, the stores are as it found them, and it
\* returned the message about the missing text, not a log.
C14_NoTextNoWork ==
    CalledWithoutText =>
       /\ pc = "idle"
       /\ requests = <<>>
       /\ ret = NoTextMessage
       /\ archival_objects = op.before.archival_objects
       /\ top_containers = op.before.top_containers
       /\ digital_objects = op.before.digital_objects

\* A text sweep was called with the empty text on a resource that holds a
\* published access restriction.
C14_Witness ==
    /\ CalledWithoutText
    /\ op.args.restriction_text = EmptyText
    /\ ret = NoTextMessage
    /\ \E uri \in ObjectsOf(op.args.resource_number) :
          \E i \in 1..Len(NotesNow(uri)) : PublishedRestriction(NotesNow(uri)[i])

-----------------------------------------------------------------------------
(* Writes and log entries of a sweep, record by record                     *)

SweepReturned == IsSweep /\ pc = "idle" /\ ret.status = "returned"

\* The uris the returned log names, entry by entry.
LoggedUris == [k \in 1..Len(ret.value) |-> ret.value[k].uri]

\* The place of a uri in the pre-order of the tree of the resource.
PreOrderIndex(uri, resource_number) ==
    LET order == UrisOf(PreOrderNodes(ResourceTree(resource_number).children))
    IN IF \E k \in 1..Len(order) : order[k] = uri
       THEN CHOOSE k \in 1..Len(order) : order[k] = uri
       ELSE 0

\* A note of the record, as it was when the sweep started, that the sweep unpublishes.
ChangesBefore(uri) ==
    \E i \in 1..Len(NotesBefore(uri)) : Verdict(NotesBefore(uri)[i]) = "unpublish"

\* Every write follows the fetch of the same record: one write to a visit.
SweepWritesOncePerVisit ==
    IsSweep =>
       \A k \in 1..Len(requests) :
          requests[k].method = "POST" =>
             /\ k > 1
             /\ requests[k - 1] = [method |-> "GET", uri |-> requests[k].uri, status |-> 200]

\* C15: when a sweep has returned, every write followed the fetch of its
\* record; a record visited once was written once if one of its notes
\* changed and not at all otherwise; the log holds one entry for each write
\* of a record; and the entries follow the pre-order of the resource's tree.
C15_OneWriteOneEntryPerRecord ==
    SweepReturned =>
       /\ \A k \in 1..Len(requests) :
             requests[k].method = "POST" =>
                /\ k > 1
                /\ requests[k - 1] = [method |-> "GET", uri |-> requests[k].uri, status |-> 200]
       /\ \A uri \in DOMAIN op.before.archival_objects :
             /\ Cardinality(Sent("GET", uri)) = 1 =>
                   Cardinality(Sent("POST", uri)) = IF ChangesBefore(uri) THEN 1 ELSE 0
             /\ Cardinality({k \in 1..Len(ret.value) : ret.value[k].uri = uri})
                   = Cardinality(Sent("POST", uri))
       /\ \A j, k \in 1..Len(ret.value) :
             j < k =>
                /\ PreOrderIndex(LoggedUris[j], op.args.resource_number) > 0
                /\ PreOrderIndex(LoggedUris[j], op.args.resource_number)
                      <= PreOrderIndex(LoggedUris[k], op.args.resource_number)

-----------------------------------------------------------------------------
(* What an operation for one resource touches                              *)

ForOneResource == IsSweep \/ op.name = "remove_resource_associations"

\* The record belongs to the resource the operation was called for: the
\* tree itself, a node of the tree, or a container or digital object that a
\* node of the tree held an instance of when the operation started.
OfOwnResource(uri) ==
    CASE uri.type = "resources_tree" -> uri = TreeUri(op.args.resource_number)
      [] uri.type = "archival_objects" -> uri \in ObjectsOf(op.args.resource_number)
      [] OTHER -> \E node \in ObjectsOf(op.args.resource_number) :
                     ReferencedBefore(node, uri)

TouchesOwnResourceOnly ==
    /\ \A k \in 1..Len(requests) : OfOwnResource(requests[k].uri)
    /\ \A uri \in DOMAIN op.before.archival_objects :
          ~OfOwnResource(uri) => archival_objects[uri] = op.before.archival_objects[uri]
    /\ \A uri \in DOMAIN op.before.top_containers :
          ~OfOwnResource(uri) =>
             uri \in DOMAIN top_containers
             /\ top_containers[uri] = op.before.top_containers[uri]
    /\ \A uri \in DOMAIN op.before.digital_objects :
          ~OfOwnResource(uri) =>
             uri \in DOMAIN digital_objects
             /\ digital_objects[uri] = op.before.digital_objects[uri]

\* C16: a sweep or an association cleanup called for a resource sends
\* requests only for that resource's tree, its nodes and the containers and
\* digital objects its nodes refer to, and every other record stays stored
\* as it was, whatever operations ran before.
C16_TouchesOwnResourceOnly == ForOneResource => TouchesOwnResourceOnly

\* The same for the first operation of a process.
FirstCallTouchesOwnResourceOnly ==
    (ForOneResource /\ op.prev = Idle) => TouchesOwnResourceOnly

-----------------------------------------------------------------------------
(* The log of a sweep and what the backend stored                          *)

\* The record named by a log entry is stored with an unpublished access
\* restriction of the text the entry gives.
Persisted(entry) ==
    /\ entry.uri \in DOMAIN archival_objects
    /\ \E i \in 1..Len(NotesNow(entry.uri)) :
          /\ NotesNow(entry.uri)[i].type = "accessrestrict"
          /\ ~NotesNow(entry.uri)[i].publish
          /\ format_note(NotesNow(entry.uri)[i]) = entry.restriction

\* C17: a sweep returns its log only if the backend answered each of its
\* writes with the success code, and every entry of the returned log names a
\* note that is stored unpublished.
C17_LogEntriesArePersisted ==
    SweepReturned =>
       /\ \A k \in 1..Len(requests) :
             requests[k].method = "POST" => requests[k].status = 200
       /\ \A k \in 1..Len(ret.value) : Persisted(ret.value[k])

\* The same for the sweeps all of whose writes the backend accepted.
AcceptedWritesArePersisted ==
    (SweepReturned
     /\ \A k \in 1..Len(requests) :
           requests[k].method = "POST" => requests[k].status = 200) =>
        \A k \in 1..Len(ret.value) : Persisted(ret.value[k])

-----------------------------------------------------------------------------
(* Two callers sweeping the same repository                                *)

\* Each caller is a process of its own with its own client: op, pc, locals,
\* ret and the default list of the extractor are held per caller, and
\* requests is the sequence of requests as they reach the backend.

MaxRaceOps == 2     \* sweeps the two callers start between them

Callers == {1, 2}

NoRecord == <<>>

\* A request as the backend receives it: who sent it and, for a write, the
\* record in its body.
RaceRequest(caller, method, uri, response, record) ==
    [caller |-> caller, method |-> method, uri |-> uri,
     status |-> response.status, record |-> record]

RaceVerdict(caller, note) ==
    IF op[caller].name = ExpirySweep THEN ExpiryVerdict(note, op[caller].args.today)
    ELSE TextVerdict(note, op[caller].args.restriction_text)

\* Either sweep of one caller up to its loop.
RaceStart(caller, name, resource_number, restriction_text) ==
    /\ pc[caller] = "idle"
    /\ nOps < MaxRaceOps
    /\ nOps' = nOps + 1
    /\ op' = [op EXCEPT ![caller] =
                 [name |-> name,
                  args |-> [resource_number |-> resource_number,
                            restriction_text |-> restriction_text,
                            today |-> Today]]]
    /\ IF name = TextSweep /\ ~TextTruthy(restriction_text)
       THEN /\ ret' = [ret EXCEPT ![caller] = NoTextMessage]
            /\ UNCHANGED <<pc, locals, requests, extractDefault>>
       ELSE \E response \in GetAnswers(TreeUri(resource_number)) :
              /\ requests' = Append(requests,
                                    RaceRequest(caller, "GET", TreeUri(resource_number),
                                                response, NoRecord))
              /\ IF RequestError(response) # "none"
                 THEN /\ ret' = [ret EXCEPT ![caller] = Raised(RequestError(response))]
                      /\ UNCHANGED <<pc, locals, extractDefault>>
                 ELSE /\ extractDefault' =
                           [extractDefault EXCEPT ![caller] =
                               extract_archival_object_uris_from_children(
                                   response.body.children, extractDefault[caller])]
                      /\ locals' = [locals EXCEPT ![caller] =
                                       [archival_object_uris |-> extractDefault'[caller],
                                        i |-> 1,
                                        unpublished_log |-> <<>>,
                                        archival_object |-> <<>>]]
                      /\ ret' = [ret EXCEPT ![caller] = NoRet]
                      /\ pc' = [pc EXCEPT ![caller] = "sweep_loop"]
    /\ UNCHANGED <<backendVars, findDefault, extractCall, findCall>>

\* One turn of a caller's loop up to the write.
RaceFetch(caller) ==
    /\ pc[caller] = "sweep_loop"
    /\ locals[caller].i <= Len(locals[caller].archival_object_uris)
    /\ LET archival_object_uri == locals[caller].archival_object_uris[locals[caller].i]
       IN \E response \in GetAnswers(archival_object_uri) :
            /\ requests' = Append(requests,
                                  RaceRequest(caller, "GET", archival_object_uri,
                                              response, NoRecord))
            /\ IF RequestError(response) # "none"
               THEN /\ ret' = [ret EXCEPT ![caller] = Raised(RequestError(response))]
                    /\ pc' = [pc EXCEPT ![caller] = "idle"]
                    /\ UNCHANGED locals
               ELSE LET done == ProcessNotesBy(
                                    [n \in 1..Len(response.body.notes) |->
                                        RaceVerdict(caller, response.body.notes[n])],
                                    archival_object_uri, response.body)
                    IN IF done.error # "none"
                       THEN /\ ret' = [ret EXCEPT ![caller] = Raised(done.error)]
                            /\ pc' = [pc EXCEPT ![caller] = "idle"]
                            /\ UNCHANGED locals
                       ELSE /\ locals' =
                                 [locals EXCEPT
                                    ![caller].archival_object = done.archival_object,
                                    ![caller].unpublished_log = @ \o done.entries,
                                    ![caller].i = IF done.update_archival_object
                                                  THEN @ ELSE @ + 1]
                            /\ pc' = [pc EXCEPT ![caller] =
                                         IF done.update_archival_object
                                         THEN "sweep_post" ELSE "sweep_loop"]
                            /\ UNCHANGED ret
    /\ UNCHANGED <<op, nOps, backendVars, walkerVars>>

\* The write of the turn: the whole record as fetched and edited, no version
\* of the stored record named in the request.
RacePost(caller) ==
    /\ pc[caller] = "sweep_post"
    /\ LET archival_object_uri == locals[caller].archival_object_uris[locals[caller].i]
       IN \E response \in PostAnswers(archival_object_uri) :
            /\ requests' = Append(requests,
                                  RaceRequest(caller, "POST", archival_object_uri,
                                              response, locals[caller].archival_object))
            /\ IF response.status = 200
               THEN StoreOverwritten(archival_object_uri, locals[caller].archival_object)
               ELSE UNCHANGED backendVars
            /\ IF ~response.is_json
               THEN /\ ret' = [ret EXCEPT ![caller] = Raised("ValueError")]
                    /\ pc' = [pc EXCEPT ![caller] = "idle"]
                    /\ UNCHANGED locals
               ELSE /\ locals' = [locals EXCEPT ![caller].i = @ + 1]
                    /\ pc' = [pc EXCEPT ![caller] = "sweep_loop"]
                    /\ UNCHANGED ret
    /\ UNCHANGED <<op, nOps, walkerVars>>

RaceReturn(caller) ==
    /\ pc[caller] = "sweep_loop"
    /\ locals[caller].i > Len(locals[caller].archival_object_uris)
    /\ ret' = [ret EXCEPT ![caller] = Returned(locals[caller].unpublished_log)]
    /\ pc' = [pc EXCEPT ![caller] = "idle"]
    /\ UNCHANGED <<op, locals, requests, nOps, backendVars, walkerVars>>

\* The callers sweep resource 2, whose one node ao3 holds these notes.
RaceResources == {2}

RaceNotes ==
    {<<SinglePart("accessrestrict", TRUE, TxtEarlier)>>,
     <<SinglePart("accessrestrict", TRUE, TxtEarlier),
       SinglePart("accessrestrict", TRUE, TxtPlain)>>,
     <<SinglePart("scopecontent", TRUE, TxtEarlier),
       SinglePart("accessrestrict", TRUE, TxtPlain)>>}

RaceTexts == {PyFalse, TxtPlain, TxtEarlier}

InitRace ==
    /\ \E notes1 \in {<<>>}, notes2 \in {<<>>}, notes3 \in RaceNotes :
         LET objects ==
                (AO(1) :> PlainObject(AO(1), notes1, <<ContainerInstance(1)>>))
                @@ (AO(2) :> PlainObject(AO(2), notes2, <<>>))
                @@ (AO(3) :> PlainObject(AO(3), notes3, <<DigitalObjectInstance(1)>>))
         IN /\ archival_objects = objects
            /\ top_containers = [uri \in {TC(1), TC(2)} |->
                                    TopContainer(uri, CollectionOf(objects, uri.id))]
            /\ digital_objects = [uri \in {DO(1)} |->
                                    DigitalObject(uri, LinkedInstancesOf(objects, uri.id))]
    /\ extractDefault = [caller \in Callers |-> <<>>]
    /\ findDefault = <<>>
    /\ extractCall = NoCall
    /\ findCall = NoCall
    /\ op = [caller \in Callers |-> Idle]
    /\ pc = [caller \in Callers |-> "idle"]
    /\ locals = [caller \in Callers |-> <<>>]
    /\ ret = [caller \in Callers |-> NoRet]
    /\ requests = <<>>
    /\ nOps = 0

NextRace ==
    \/ \E caller \in Callers, resource_number \in RaceResources :
          RaceStart(caller, ExpirySweep, resource_number, PyFalse)
    \/ \E caller \in Callers, resource_number \in RaceResources, restriction_text \in RaceTexts :
          RaceStart(caller, TextSweep, resource_number, restriction_text)
    \/ \E caller \in Callers : RaceFetch(caller)
    \/ \E caller \in Callers : RacePost(caller)
    \/ \E caller \in Callers : RaceReturn(caller)

SpecRace == InitRace /\ [][NextRace]_vars

\* The writes the backend accepted, as places in the sequence of requests.
AcceptedWrites ==
    {k \in 1..Len(requests) : requests[k].method = "POST" /\ requests[k].status = 200}

AcceptedWritesTo(uri) == {k \in AcceptedWrites : requests[k].uri = uri}

LastWriteTo(uri) ==
    CHOOSE k \in AcceptedWritesTo(uri) : \A j \in AcceptedWritesTo(uri) : j <= k

\* The fetch that began the read-modify-write cycle the write k ends.
FetchOf(k) ==
    CHOOSE i \in 1..(k - 1) :
       /\ requests[i].caller = requests[k].caller
       /\ \A j \in (i + 1)..(k - 1) : requests[j].caller # requests[k].caller

\* Another caller's write of the same record was accepted between the fetch
\* and the write of the cycle.
Interleaved(k) ==
    \E j \in (FetchOf(k) + 1)..(k - 1) :
       /\ j \in AcceptedWritesTo(requests[k].uri)
       /\ requests[j].caller # requests[k].caller

Serialized == \A k \in AcceptedWrites : ~Interleaved(k)

\* A note the write k stored unpublished is stored published now.
EditLost(k) ==
    \E i \in 1..Len(requests[k].record.notes) :
       /\ ~requests[k].record.notes[i].publish
       /\ archival_objects[requests[k].uri].notes[i].publish

\* C18: every record that has been written is stored exactly as the last
\* accepted write posted it, whatever the others wrote before; and as long
\* as no read-modify-write cycle on a record had another caller's write of
\* that record fall between its fetch and its write, no note an accepted
\* write unpublished is stored published.
C18_LastWriterWins ==
    /\ \A uri \in DOMAIN archival_objects :
          AcceptedWritesTo(uri) # {} =>
             archival_objects[uri] = requests[LastWriteTo(uri)].record
    /\ Serialized => \A k \in AcceptedWrites : ~EditLost(k)

\* Both callers have returned from sweeps that interleaved on a record, every
\* write was accepted, and the edit of the earlier writer is lost.
C18_Witness ==
    /\ \A caller \in Callers : pc[caller] = "idle" /\ ret[caller].status = "returned"
    /\ \A k \in 1..Len(requests) : requests[k].status = 200
    /\ ~Serialized
    /\ \E k \in AcceptedWrites : EditLost(k)

=============================================================================
